---- MODULE Spec2Model ----
(***************************************************************************)
(* Notification engine of the certification tracker (server/server.cjs):   *)
(* expiry classifier, audit log, deduplication oracle, dispatcher          *)
(* (runNotificationJob) and the interval scheduler of bootstrap().         *)
(*                                                                         *)
(* Time is counted in minutes since 00:00 UTC of 1 January of the first    *)
(* calendar year below; a JS Date is such an instant.  A "YYYY-MM-DD"      *)
(* string is the tuple <<y, m, d>> (m is 0-based as Date.getMonth), the    *)
(* empty string is <<>>.  A SQL DATE is the same tuple, NULL is <<>>.      *)
(***************************************************************************)
EXTENDS Integers, Sequences, FiniteSets, TLC

VARIABLES
    hostOffset,      \* time-zone offset of the host process, minutes east of UTC
    now,             \* the wall clock (what new Date() returns)
    probe,           \* one call of getExpiryStatus: its argument and its result
    certifications,  \* dbo.Certifications: id -> row
    emailRecipients, \* dbo.EmailRecipients: email (unique index) -> isActive
    emailLogs,       \* dbo.EmailLogs, in insertion order
    runs,            \* the executions of runNotificationJob: id -> its locals
    lastRunYmd,      \* the scheduler's marker in bootstrap()
    budget,          \* what the environment may still do (edits, faults)
    hist             \* history of the behaviour, read by the properties only

vars == <<hostOffset, now, probe, certifications, emailRecipients, emailLogs,
          runs, lastRunYmd, budget, hist>>

(***************************************************************************)
(* Program constants.                                                      *)
(***************************************************************************)
MS_PER_DAY == 1440          \* one day, in the model's unit (minutes)
IST_OFFSET == 330           \* 330 * 60 * 1000 ms
TICK_PERIOD == 15           \* setInterval(..., 15 * 60 * 1000)

(***************************************************************************)
(* Bounds of the model.                                                    *)
(***************************************************************************)
ClassifySpan == 120         \* "today" ranges over this many consecutive days
LookBack == 10              \* validity-end down to today - LookBack
LookAhead == 220            \* validity-end up to today + LookAhead
MaxRuns == 3                \* executions of runNotificationJob in one behaviour
MaxConcurrent == 2          \* of which at most this many at a time
MaxAdvances == 3            \* steps of the wall clock
ClockStep == 360            \* minutes of one such step, outside the scheduler study
MaxEdits == 1               \* changes made through the CRUD endpoints
MaxFaults == 1              \* gateway rejections and storage errors
MaxLog == 4                 \* rows of dbo.EmailLogs
ScenarioNear == 200         \* days ahead of the validity-end of scenario A
ScenarioFar == 220          \* days ahead of a validity-end past the last rung
BadgeAhead == 20            \* days ahead of the validity-ends the badge is compared on

CalYears == 2024 .. 2026
FirstYear == CHOOSE y \in CalYears : \A z \in CalYears : y <= z
HostOffsets == {0, IST_OFFSET, 0 - 300}

(***************************************************************************)
(* The proleptic Gregorian calendar behind the JS Date getters.            *)
(***************************************************************************)
IsLeap(y) == (y % 4 = 0 /\ y % 100 # 0) \/ y % 400 = 0

YearDays(y) == IF IsLeap(y) THEN 366 ELSE 365

DaysInMonth(y, m) ==
    IF m = 1 THEN (IF IsLeap(y) THEN 29 ELSE 28)
    ELSE IF m \in {3, 5, 8, 10} THEN 30 ELSE 31

RECURSIVE DaysBeforeYear(_)
DaysBeforeYear(y) ==
    IF y <= FirstYear THEN 0 ELSE DaysBeforeYear(y - 1) + YearDays(y - 1)

RECURSIVE DaysBeforeMonth(_, _)
DaysBeforeMonth(y, m) ==
    IF m = 0 THEN 0 ELSE DaysBeforeMonth(y, m - 1) + DaysInMonth(y, m - 1)

\* day number of the civil date <<y, m, d>>
DaysFromCivil(ymd) ==
    DaysBeforeYear(ymd[1]) + DaysBeforeMonth(ymd[1], ymd[2]) + ymd[3] - 1

CalDays == 0 .. (DaysBeforeYear(FirstYear + Cardinality(CalYears)) - 1)

\* the year a day number falls in, the month a day of the year falls in
YearOfDay(n) ==
    CHOOSE y \in CalYears : DaysBeforeYear(y) <= n /\ n < DaysBeforeYear(y + 1)

MonthOfDay(y, r) ==
    CHOOSE m \in 0 .. 11 : DaysBeforeMonth(y, m) <= r /\ r < DaysBeforeMonth(y, m + 1)

CivilInMonth(y, m, r) == <<y, m, r - DaysBeforeMonth(y, m) + 1>>

CivilInYear(y, r) == CivilInMonth(y, MonthOfDay(y, r), r)

\* the civil date <<y, m, d>> of a day number
CivilFromDays(n) == CivilInYear(YearOfDay(n), n - DaysBeforeYear(YearOfDay(n)))

CivilTable == [n \in CalDays |-> CivilFromDays(n)]

\* the UTC calendar day an instant falls on (getUTCFullYear/Month/Date)
UtcDay(t) == t \div MS_PER_DAY

\* the host-local calendar day an instant falls on (getFullYear/Month/Date)
LocalDay(t) == (t + hostOffset) \div MS_PER_DAY

\* new Date("YYYY-MM-DD"): a date-only string is parsed as UTC midnight
DateParse(ymd) == DaysFromCivil(ymd) * MS_PER_DAY

\* strings new Date() makes an Invalid Date of: a text that is no date (<<0>>)
\* and a date string with month 13
Unparseable == {<<0>>, <<FirstYear, 12, 1>>}

\* !Number.isNaN(new Date(s).getTime())
IsDateString(ymd) == ymd \notin Unparseable

toYMD(dt) == CivilTable[LocalDay(dt)]

(***************************************************************************)
(* Expiry classifier.                                                      *)
(***************************************************************************)
startOfDay(d) == LocalDay(d) * MS_PER_DAY - hostOffset

\* monthDiff on the getters' values: ca = <<ay, am, ad>>, cb = <<by, bm, bd>>
MonthsBetween(ca, cb) ==
    (cb[1] - ca[1]) * 12 + (cb[2] - ca[2]) - (IF cb[3] < ca[3] THEN 1 ELSE 0)

monthDiff(a, b) == MonthsBetween(CivilTable[LocalDay(a)], CivilTable[LocalDay(b)])

daysDiff(a, b) == (startOfDay(b) - startOfDay(a)) \div MS_PER_DAY

\* variant: the last rung written as "monthsUntil <= 7"
RungSevenMonths(daysUntil, monthsUntil) ==
    IF daysUntil <= 1 THEN "day-before"
    ELSE IF daysUntil <= 7 THEN "week"
    ELSE IF daysUntil <= 14 THEN "2-weeks"
    ELSE IF monthsUntil <= 1 THEN "month"
    ELSE IF monthsUntil <= 3 THEN "3-months"
    ELSE IF monthsUntil <= 7 THEN "6-months"
    ELSE "safe"

\* variant: no "if (daysUntil <= 14) return '2-weeks'"
RungNoTwoWeeks(daysUntil, monthsUntil) ==
    IF daysUntil <= 1 THEN "day-before"
    ELSE IF daysUntil <= 7 THEN "week"
    ELSE IF monthsUntil <= 1 THEN "month"
    ELSE IF monthsUntil <= 3 THEN "3-months"
    ELSE IF monthsUntil <= 6 THEN "6-months"
    ELSE "safe"

\* the rungs of getExpiryStatus, once the dates are not overdue
Rung(daysUntil, monthsUntil) ==
    IF daysUntil <= 1 THEN "day-before"
    ELSE IF daysUntil <= 7 THEN "week"
    ELSE IF daysUntil <= 14 THEN "2-weeks"
    ELSE IF monthsUntil <= 1 THEN "month"
    ELSE IF monthsUntil <= 3 THEN "3-months"
    ELSE IF monthsUntil <= 6 THEN "6-months"
    ELSE "safe"

\* getExpiryStatus from const expiry and const today on
Bucket(expiry, today) ==
    IF expiry < today THEN "overdue"
    ELSE Rung(daysDiff(today, expiry), monthDiff(today, expiry))

\* NaN < k, NaN <= k: a comparison with NaN is false
NaNBelow(k) == FALSE

\* variant: the first test written as "!(expiry >= today)"
BucketOfNaNNegated(today) == "overdue"

\* getExpiryStatus from const today on when expiry is an Invalid Date:
\* getTime(), daysDiff and monthDiff are NaN
BucketOfNaN(today) ==
    IF NaNBelow(today) THEN "overdue"
    ELSE IF NaNBelow(1) THEN "day-before"
    ELSE IF NaNBelow(7) THEN "week"
    ELSE IF NaNBelow(14) THEN "2-weeks"
    ELSE IF NaNBelow(1) THEN "month"
    ELSE IF NaNBelow(3) THEN "3-months"
    ELSE IF NaNBelow(6) THEN "6-months"
    ELSE "safe"

\* variant: no "if (!validityUptoYmd) return 'safe'", an absent date is past
getExpiryStatusAbsentOverdue(validityUptoYmd, clock) ==
    IF validityUptoYmd = <<>> THEN "overdue"
    ELSE Bucket(startOfDay(DateParse(validityUptoYmd)), startOfDay(clock))

getExpiryStatus(validityUptoYmd, clock) ==
    IF validityUptoYmd = <<>> THEN "safe"
    ELSE IF ~IsDateString(validityUptoYmd) THEN BucketOfNaN(startOfDay(clock))
    ELSE Bucket(startOfDay(DateParse(validityUptoYmd)), startOfDay(clock))

(***************************************************************************)
(* Storage: rows, the SELECTs of the notification engine, the API mappers. *)
(***************************************************************************)
NULL == "<null>"            \* SQL NULL of a text column (a DATE's NULL is <<>>)

CertOrder == <<"c1", "c2">>
CertIds == {CertOrder[i] : i \in 1 .. Len(CertOrder)}
\* the id (a fresh randomUUID) of the row the reset imports
ImportedId == "c3"
TableOrder == Append(CertOrder, ImportedId)
RecipientOrder == <<"a@x", "b@x">>
Emails == {RecipientOrder[i] : i \in 1 .. Len(RecipientOrder)}

\* r.x || "" of the mappers
OrEmpty(v) == IF v = NULL THEN "" ELSE v

\* the mssql driver hands a DATE column over as a Date at UTC midnight
DateColumn(d) == DaysFromCivil(d) * MS_PER_DAY

\* parseDateOrNull: null for an empty string, else new Date(s)
NoDate == 0 - 1
parseDateOrNull(ymd) ==
    IF ymd = <<>> \/ ~IsDateString(ymd) THEN NoDate ELSE DateParse(ymd)

\* bindInputs: a Date under a date key goes out as sql.Date, which keeps the
\* calendar day the instant has in UTC
DateParam(d) == IF d = NoDate THEN <<>> ELSE CivilTable[UtcDay(d)]

\* r.validityUpto ? toYMD(r.validityUpto) : ""
YmdOrEmpty(d) == IF d = <<>> THEN <<>> ELSE toYMD(DateColumn(d))

\* The column list of fetchCertificationsForNotifications names the row-wise
\* columns only: the bis*/iec* columns are not in the record set, so the
\* mapper reads them as undefined.
mapCertificationRow(id, r, selected) ==
    LET col(name) == IF name \in selected THEN r[name] ELSE NULL
        dat(name) == IF name \in selected THEN r[name] ELSE <<>>
    IN  [id |-> id,
         type |-> IF col("type") \in {NULL, ""} THEN "BIS" ELSE col("type"),
         rNo |-> OrEmpty(col("rNo")),
         status |-> OrEmpty(col("status")),
         modelList |-> OrEmpty(col("modelList")),
         standard |-> OrEmpty(col("standard")),
         validityFrom |-> YmdOrEmpty(dat("validityFrom")),
         validityUpto |-> YmdOrEmpty(dat("validityUpto")),
         alarmAlert |-> OrEmpty(col("alarmAlert")),
         action |-> OrEmpty(col("action")),
         bisRNo |-> OrEmpty(col("bisRNo")),
         bisStatus |-> OrEmpty(col("bisStatus")),
         bisValidityFrom |-> YmdOrEmpty(dat("bisValidityFrom")),
         bisValidityUpto |-> YmdOrEmpty(dat("bisValidityUpto")),
         iecRNo |-> OrEmpty(col("iecRNo")),
         iecStatus |-> OrEmpty(col("iecStatus")),
         iecValidityFrom |-> YmdOrEmpty(dat("iecValidityFrom")),
         iecValidityUpto |-> YmdOrEmpty(dat("iecValidityUpto"))]

NotificationColumns ==
    {"type", "rNo", "status", "modelList", "standard", "validityFrom",
     "validityUpto", "alarmAlert", "action"}

fetchCertificationsForNotifications ==
    LET present == SelectSeq(TableOrder, LAMBDA id : id \in DOMAIN certifications)
    IN  [i \in 1 .. Len(present) |->
            mapCertificationRow(present[i], certifications[present[i]],
                                NotificationColumns)]

\* variant: the SELECT without "WHERE isActive = 1"
fetchAllRecipients ==
    SelectSeq(RecipientOrder, LAMBDA e : e \in DOMAIN emailRecipients)

fetchActiveRecipients ==
    SelectSeq(RecipientOrder,
              LAMBDA e : e \in DOMAIN emailRecipients /\ emailRecipients[e])

normalizeCertType(raw) ==
    IF raw = "BIS & IEC" THEN "BIS & IEC"
    ELSE IF raw = "IEC" THEN "IEC"
    ELSE "BIS"

\* expandCert of runNotificationJob: the notification units of one stored row
expandCert(row) ==
    LET hasLegacy ==
            \/ row.rNo # ""
            \/ row.validityUpto # <<>>
            \/ row.validityFrom # <<>>
            \/ row.status # ""
            \/ row.modelList # ""
            \/ row.standard # ""
            \/ row.action # ""
            \/ row.alarmAlert # ""
        t == normalizeCertType(row.type)
        oneType == IF t = "BIS & IEC" THEN "BIS" ELSE t
        hasBIS ==
            \/ row.bisRNo # ""
            \/ row.bisValidityUpto # <<>>
            \/ row.bisValidityFrom # <<>>
            \/ row.bisStatus # ""
        hasIEC ==
            \/ row.iecRNo # ""
            \/ row.iecValidityUpto # <<>>
            \/ row.iecValidityFrom # <<>>
            \/ row.iecStatus # ""
        unit(typeKey, upto) ==
            [id |-> row.id, typeKey |-> typeKey, validityUpto |-> upto]
    IN  IF hasLegacy THEN <<unit(oneType, row.validityUpto)>>
        ELSE (IF hasBIS THEN <<unit("BIS", row.bisValidityUpto)>> ELSE <<>>)
             \o (IF hasIEC THEN <<unit("IEC", row.iecValidityUpto)>> ELSE <<>>)

(***************************************************************************)
(* Deduplication oracle and audit log.                                     *)
(***************************************************************************)
todayYmdIST(clock) == CivilTable[UtcDay(clock + IST_OFFSET)]

\* variant: the dedup query without "AND status = 'sent'"
AnyStatusRows(certId, recipientEmail, emailType, milestone) ==
    {i \in 1 .. Len(emailLogs) :
        /\ emailLogs[i].certificationId = certId
        /\ emailLogs[i].recipientEmail = recipientEmail
        /\ emailLogs[i].emailType = emailType
        /\ emailLogs[i].milestone = milestone}

\* the rows a dedup query selects
SentRows(certId, recipientEmail, emailType, milestone) ==
    {i \in 1 .. Len(emailLogs) :
        /\ emailLogs[i].certificationId = certId
        /\ emailLogs[i].recipientEmail = recipientEmail
        /\ emailLogs[i].emailType = emailType
        /\ emailLogs[i].milestone = milestone
        /\ emailLogs[i].status = "sent"}

\* variant: the reminder query without "AND milestone = @milestone"
hasSentAnyMilestone(certId, recipientEmail, milestone) ==
    {i \in 1 .. Len(emailLogs) :
        /\ emailLogs[i].certificationId = certId
        /\ emailLogs[i].recipientEmail = recipientEmail
        /\ emailLogs[i].emailType = "reminder"
        /\ emailLogs[i].status = "sent"} # {}

\* variant: the reminder query reading the rows of the other regime
hasSentMilestoneAsOverdue(certId, recipientEmail, milestone) ==
    {i \in 1 .. Len(emailLogs) :
        /\ emailLogs[i].certificationId = certId
        /\ emailLogs[i].recipientEmail = recipientEmail
        /\ emailLogs[i].emailType = "overdue"
        /\ emailLogs[i].milestone = milestone
        /\ emailLogs[i].status = "sent"} # {}

hasSentMilestone(certId, recipientEmail, milestone) ==
    SentRows(certId, recipientEmail, "reminder", milestone) # {}

\* TOP 1 ... ORDER BY sentAt DESC, then both dates rendered and compared
hasSentOverdueToday(certId, recipientEmail, overdueMilestone, clock) ==
    LET hits == SentRows(certId, recipientEmail, "overdue", overdueMilestone)
    IN  IF hits = {} THEN FALSE
        ELSE LET top == CHOOSE i \in hits :
                            \A j \in hits : emailLogs[j].sentAt <= emailLogs[i].sentAt
                 lastYmd == toYMD(emailLogs[top].sentAt + IST_OFFSET)
             IN  lastYmd = todayYmdIST(clock)

\* the row addEmailLogRow inserts (by: the run that wrote it, read by the properties only)
EmailLogRow(certId, recipientEmail, emailType, milestone, sentAt, status, error, by) ==
    [certificationId |-> certId, recipientEmail |-> recipientEmail,
     emailType |-> emailType, milestone |-> milestone, sentAt |-> sentAt,
     status |-> status, error |-> error, by |-> by]

(***************************************************************************)
(* runNotificationJob.  Every await of the code is a step boundary; the    *)
(* code between two awaits runs within one step.                           *)
(***************************************************************************)
\* the executions that can be in progress at a time; a finished one leaves
\* its result behind until another execution takes its place
RunIds == 1 .. MaxConcurrent

NoUnit == [id |-> "", typeKey |-> "", validityUpto |-> <<>>]

IdleRun ==
    [pc |-> "idle", serial |-> 0, kind |-> "", ymd |-> <<>>,
     recipients |-> <<>>, certs |-> <<>>, ci |-> 0, virtuals |-> <<>>,
     cert |-> NoUnit, status |-> "", milestone |-> <<>>,
     ri |-> 0, toSend |-> <<>>, li |-> 0, mailOk |-> FALSE, stamp |-> 0,
     sent |-> 0, skipped |-> 0,
     \* history of this execution, read by the properties only (items: the
     \* notification units and empty records met so far; bounced: the
     \* sendEmail calls that threw; accepted: the sendEmail call of the unit
     \* being logged returned)
     activeAtLoad |-> {}, readCerts |-> FALSE, dated |-> {}, undated |-> {},
     items |-> 0, calls |-> 0, bounced |-> 0, accepted |-> FALSE, wrote |-> 0, calm |-> FALSE, second |-> FALSE]

Active(r) == runs[r].pc \notin {"idle", "done", "threw"}
ActiveRuns == {r \in RunIds : Active(r)}

\* return { ok: true, sent, skipped }: the locals go out of scope
Return(rec) ==
    [rec EXCEPT !.pc = "done", !.recipients = <<>>, !.certs = <<>>, !.ci = 0,
                !.virtuals = <<>>, !.cert = NoUnit, !.status = "",
                !.milestone = <<>>, !.ri = 0, !.toSend = <<>>, !.li = 0,
                !.mailOk = FALSE, !.stamp = 0, !.accepted = FALSE]

\* an error leaves runNotificationJob
Throw(rec) == [Return(rec) EXCEPT !.pc = "threw"]

\* the body of "for (const cert of virtuals)" up to its first await
Unit(rec, cert, status) ==
    IF status = "safe"
    THEN [rec EXCEPT !.virtuals = Tail(@), !.skipped = @ + 1, !.items = @ + 1]
    ELSE [rec EXCEPT !.virtuals = Tail(@), !.cert = cert, !.status = status,
                     !.items = @ + 1,
                     !.milestone = <<cert.typeKey,
                                     IF status = "overdue" THEN "overdue" ELSE status>>,
                     !.ri = 1, !.toSend = <<>>, !.pc = "oracle"]

\* the head of "for (const parent of certs)"
Parent(rec, virtuals) ==
    IF virtuals = <<>>
    THEN [rec EXCEPT !.ci = @ + 1, !.skipped = @ + 1, !.items = @ + 1]
    ELSE [rec EXCEPT !.ci = @ + 1, !.virtuals = virtuals]

\* One pass through the loops over certs and virtuals: the next unit is
\* skipped (pc stays "loop"), or its first dedup query is awaited, or the
\* loops are over and the function returns.
LoopOnce(rec, clock) ==
    IF rec.virtuals # <<>>
    THEN Unit(rec, Head(rec.virtuals),
              getExpiryStatus(Head(rec.virtuals).validityUpto, clock))
    ELSE IF rec.ci < Len(rec.certs)
    THEN Parent(rec, expandCert(rec.certs[rec.ci + 1]))
    ELSE Return(rec)

\* The code from a loop position up to the next await or to the return.
RECURSIVE Scan(_, _)
Scan(rec, clock) ==
    IF rec.pc # "loop" THEN rec ELSE Scan(LoopOnce(rec, clock), clock)

EmailType(rec) == IF rec.status = "overdue" THEN "overdue" ELSE "reminder"

\* variant: the answer of the dedup query is dropped
AlreadyNever(rec, email, clock) == FALSE

\* one dedup query of the per-recipient loop
Already(rec, email, clock) ==
    IF rec.status = "overdue"
    THEN hasSentOverdueToday(rec.cert.id, email, rec.milestone, clock)
    ELSE hasSentMilestone(rec.cert.id, email, rec.milestone)

(***************************************************************************)
(* The scheduler of bootstrap() and the manual trigger.                    *)
(***************************************************************************)
afterNine(clock) ==
    LET ist == clock + IST_OFFSET
        hh == (ist % MS_PER_DAY) \div 60
        mm == ist % 60
    IN  hh > 9 \/ (hh = 9 /\ mm >= 0)

\* what the history records when a disturbance (an edit, a fault, a clock
\* step, an overlapping run) happens
Upset(rec) == [rec EXCEPT !.calm = FALSE, !.second = FALSE]

Disturbed(rs) == [r \in RunIds |-> Upset(rs[r])]

CanStart(r) ==
    /\ ~Active(r)
    /\ \A q \in RunIds : q < r => Active(q)
    /\ budget.runs > 0
    /\ \/ ActiveRuns = {}
       \/ budget.overlap /\ Cardinality(ActiveRuns) < MaxConcurrent

Begin(r, kind, ymd) ==
    LET alone == ActiveRuns = {}
        rec == [IdleRun EXCEPT !.pc = "recipients", !.kind = kind, !.ymd = ymd,
                               !.serial = hist.started + 1,
                               !.calm = alone,
                               !.second = alone /\ hist.undisturbed]
    IN  /\ runs' = [(IF alone THEN runs ELSE Disturbed(runs)) EXCEPT ![r] = rec]
        /\ budget' = [budget EXCEPT !.runs = @ - 1]
        /\ hist' = [hist EXCEPT !.started = @ + 1,
                                 !.overlapped = @ \/ ~alone,
                                 !.undisturbed = @ /\ alone,
                                 !.tickAt = IF kind = "tick" THEN now ELSE @]

\* one callback of setInterval whose condition holds; two callbacks are a
\* period apart
Tick(r) ==
    /\ CanStart(r)
    /\ hist.tickAt # now
    /\ afterNine(now)
    /\ lastRunYmd # todayYmdIST(now)
    /\ Begin(r, "tick", todayYmdIST(now))
    /\ UNCHANGED <<hostOffset, now, probe, certifications, emailRecipients,
                   emailLogs, lastRunYmd>>

\* POST /api/notifications/run
ManualRun(r) ==
    /\ CanStart(r)
    /\ Begin(r, "manual", <<>>)
    /\ UNCHANGED <<hostOffset, now, probe, certifications, emailRecipients,
                   emailLogs, lastRunYmd>>

\* variant: the marker is set in a finally, also when the run threw
SettleAlways(r, rec, rs) ==
    /\ runs' = [rs EXCEPT ![r] = rec]
    /\ lastRunYmd' = IF rec.pc \in {"done", "threw"} /\ rec.kind = "tick"
                     THEN rec.ymd ELSE lastRunYmd
    /\ hist' = IF rec.pc = "done"
               THEN [hist EXCEPT
                        !.undisturbed = rec.calm,
                        !.full = IF rec.kind = "tick" /\ rec.readCerts
                                 THEN @ \cup {rec.ymd} ELSE @,
                        !.twice = @ \/ (rec.kind = "tick" /\ rec.readCerts
                                           /\ rec.ymd \in hist.full)]
               ELSE IF rec.pc = "threw"
               THEN [hist EXCEPT !.undisturbed = FALSE,
                                 !.threwOn = IF rec.kind = "tick"
                                             THEN @ \cup {rec.ymd} ELSE @]
               ELSE hist

\* A step of run r leaves it as rec: when that ends the run, the tick that
\* awaited it sets the marker (a throw is caught by the tick, marker untouched).
Settle(r, rec, rs) ==
    /\ runs' = [rs EXCEPT ![r] = rec]
    /\ lastRunYmd' = IF rec.pc = "done" /\ rec.kind = "tick"
                     THEN rec.ymd ELSE lastRunYmd
    /\ hist' = IF rec.pc = "done"
               THEN [hist EXCEPT
                        !.undisturbed = rec.calm,
                        !.full = IF rec.kind = "tick" /\ rec.readCerts
                                 THEN @ \cup {rec.ymd} ELSE @,
                        !.twice = @ \/ (rec.kind = "tick" /\ rec.readCerts
                                           /\ rec.ymd \in hist.full)]
               ELSE IF rec.pc = "threw"
               THEN [hist EXCEPT !.undisturbed = FALSE,
                                 !.threwOn = IF rec.kind = "tick"
                                             THEN @ \cup {rec.ymd} ELSE @]
               ELSE hist

\* variant: no "if (!recipients.length) return"
LoadRecipientsNoReturn(r) ==
    /\ runs[r].pc = "recipients"
    /\ Settle(r, [runs[r] EXCEPT
                     !.recipients = fetchActiveRecipients,
                     !.activeAtLoad = {e \in DOMAIN emailRecipients : emailRecipients[e]},
                     !.pc = "certs"], runs)
    /\ UNCHANGED <<hostOffset, now, probe, certifications, emailRecipients,
                   emailLogs, budget>>

\* const recipients = await fetchActiveRecipients(); if (!recipients.length) return
LoadRecipients(r) ==
    /\ runs[r].pc = "recipients"
    /\ LET recipients == fetchActiveRecipients
           loaded == [runs[r] EXCEPT
                         !.recipients = recipients,
                         !.activeAtLoad = {e \in DOMAIN emailRecipients : emailRecipients[e]}]
           rec == IF Len(recipients) = 0
                  THEN Return([loaded EXCEPT !.sent = 0, !.skipped = 0])
                  ELSE [loaded EXCEPT !.pc = "certs"]
       IN  Settle(r, rec, runs)
    /\ UNCHANGED <<hostOffset, now, probe, certifications, emailRecipients,
                   emailLogs, budget>>

\* const certs = await fetchCertificationsForNotifications(); then the loops
LoadCerts(r) ==
    /\ runs[r].pc = "certs"
    /\ LET certs == fetchCertificationsForNotifications
           ids(has) == {certs[i].id : i \in {j \in 1 .. Len(certs) :
                                                (certs[j].validityUpto # <<>>) = has}}
           loaded == [runs[r] EXCEPT !.certs = certs,
                                     !.readCerts = TRUE, !.ci = 0, !.pc = "loop",
                                     !.virtuals = <<>>, !.sent = 0, !.skipped = 0,
                                     !.dated = ids(TRUE), !.undated = ids(FALSE)]
       IN  Settle(r, Scan(loaded, now), runs)
    /\ UNCHANGED <<hostOffset, now, probe, certifications, emailRecipients,
                   emailLogs, budget>>

\* variant: "toSend.push(r)" without the "if (!already)"
OracleStepAll(r) ==
    /\ runs[r].pc = "oracle"
    /\ LET rec == runs[r]
           toSend == Append(rec.toSend, rec.recipients[rec.ri])
           next == IF rec.ri < Len(rec.recipients)
                   THEN [rec EXCEPT !.toSend = toSend, !.ri = @ + 1]
                   ELSE [rec EXCEPT !.toSend = toSend, !.pc = "send"]
       IN  Settle(r, next, runs)
    /\ UNCHANGED <<hostOffset, now, probe, certifications, emailRecipients,
                   emailLogs, budget>>

\* one await of hasSentOverdueToday / hasSentMilestone; after the last one,
\* either the unit is skipped or sendEmail is called
OracleStep(r) ==
    /\ runs[r].pc = "oracle"
    /\ LET rec == runs[r]
           email == rec.recipients[rec.ri]
           toSend == IF Already(rec, email, now) THEN rec.toSend
                     ELSE Append(rec.toSend, email)
           next == IF rec.ri < Len(rec.recipients)
                   THEN [rec EXCEPT !.toSend = toSend, !.ri = @ + 1]
                   ELSE IF toSend = <<>>
                   THEN Scan([rec EXCEPT !.toSend = toSend, !.skipped = @ + 1,
                                         !.pc = "loop"], now)
                   ELSE [rec EXCEPT !.toSend = toSend, !.pc = "send"]
       IN  Settle(r, next, runs)
    /\ UNCHANGED <<hostOffset, now, probe, certifications, emailRecipients,
                   emailLogs, budget>>

\* await sendEmail(...) returns: the first addEmailLogRow takes its timestamp
SendOk(r) ==
    /\ runs[r].pc = "send"
    /\ Len(emailLogs) < MaxLog
    /\ Settle(r, [runs[r] EXCEPT !.pc = "log", !.mailOk = TRUE, !.li = 1,
                                 !.stamp = now, !.calls = @ + 1,
                                 !.accepted = TRUE], runs)
    /\ UNCHANGED <<hostOffset, now, probe, certifications, emailRecipients,
                   emailLogs, budget>>

\* variant: no try/catch around sendEmail, the error leaves the function
SendFailAborts(r) ==
    /\ runs[r].pc = "send"
    /\ Len(emailLogs) < MaxLog
    /\ budget.faults > 0
    /\ budget' = [budget EXCEPT !.faults = @ - 1]
    /\ Settle(r, Upset(Throw([runs[r] EXCEPT !.calls = @ + 1, !.bounced = @ + 1])),
              Disturbed(runs))
    /\ UNCHANGED <<hostOffset, now, probe, certifications, emailRecipients,
                   emailLogs>>

\* await sendEmail(...) throws: the catch block starts logging 'failed'
SendFail(r) ==
    /\ runs[r].pc = "send"
    /\ Len(emailLogs) < MaxLog
    /\ budget.faults > 0
    /\ budget' = [budget EXCEPT !.faults = @ - 1]
    /\ Settle(r, Upset([runs[r] EXCEPT !.pc = "log", !.mailOk = FALSE, !.li = 1,
                                       !.stamp = now, !.calls = @ + 1,
                                       !.bounced = @ + 1]),
              Disturbed(runs))
    /\ UNCHANGED <<hostOffset, now, probe, certifications, emailRecipients,
                   emailLogs>>

\* after the last row of an attempt: sent += 1 in the try block, nothing in
\* the catch block, and on to the next unit
Logged(rec, clock) ==
    Scan([rec EXCEPT !.wrote = @ + 1, !.sent = IF rec.mailOk THEN @ + 1 ELSE @,
                     !.accepted = FALSE, !.pc = "loop"], clock)

\* the INSERT of one addEmailLogRow completes (FK_EmailLogs_Certifications
\* holds); the loop goes on to the next recipient (whose row takes its own
\* timestamp) or ends
LogStep(r) ==
    /\ runs[r].pc = "log"
    /\ Len(emailLogs) < MaxLog
    /\ runs[r].cert.id \in DOMAIN certifications
    /\ LET rec == runs[r]
           row == EmailLogRow(rec.cert.id, rec.toSend[rec.li], EmailType(rec),
                              rec.milestone, rec.stamp,
                              IF rec.mailOk THEN "sent" ELSE "failed",
                              IF rec.mailOk THEN NULL ELSE "error", rec.serial)
           next == IF rec.li < Len(rec.toSend)
                   THEN [rec EXCEPT !.wrote = @ + 1, !.li = @ + 1, !.stamp = now]
                   ELSE Logged(rec, now)
       IN  /\ emailLogs' = Append(emailLogs, row)
           /\ Settle(r, next, runs)
    /\ UNCHANGED <<hostOffset, now, probe, certifications, emailRecipients, budget>>

\* the INSERT throws: inside the try block the catch takes it and logs
\* 'failed' for the whole send list; inside the catch it leaves the run
LogFail(r) ==
    /\ runs[r].pc = "log"
    /\ budget.faults > 0
    /\ budget' = [budget EXCEPT !.faults = @ - 1]
    /\ LET rec == runs[r]
           next == IF rec.mailOk
                   THEN [rec EXCEPT !.mailOk = FALSE, !.li = 1, !.stamp = now]
                   ELSE Throw(rec)
       IN  Settle(r, Upset(next), Disturbed(runs))
    /\ UNCHANGED <<hostOffset, now, probe, certifications, emailRecipients,
                   emailLogs>>

(***************************************************************************)
(* The environment: the wall clock and the CRUD endpoints.                 *)
(***************************************************************************)
StartDay == DaysFromCivil(<<FirstYear, 1, 20>>)
\* 08:00 UTC, 13:30 in the fixed local zone
StartInstant == StartDay * MS_PER_DAY + 8 * 60

AdvanceClock ==
    /\ budget.advances > 0
    /\ budget' = [budget EXCEPT !.advances = @ - 1]
    /\ now' = now + budget.step
    /\ runs' = Disturbed(runs)
    /\ hist' = [hist EXCEPT !.undisturbed = FALSE]
    /\ UNCHANGED <<hostOffset, probe, certifications, emailRecipients, emailLogs,
                   lastRunYmd>>

ValidityChoices ==
    {<<>>} \cup {CivilTable[StartDay + k] : k \in {0 - 5, 10, 20}}

\* PUT /api/certifications/:id with validityUpto in the body
PutCertification(id, validityUpto) ==
    /\ id \in DOMAIN certifications
    /\ certifications[id].validityUpto # validityUpto
    /\ budget.edits > 0
    /\ budget' = [budget EXCEPT !.edits = @ - 1]
    /\ certifications' = [certifications EXCEPT
                              ![id].validityUpto = DateParam(parseDateOrNull(validityUpto))]
    /\ runs' = Disturbed(runs)
    /\ hist' = [hist EXCEPT !.undisturbed = FALSE,
                             !.malformed = IF IsDateString(validityUpto)
                                           THEN @ \ {id} ELSE @ \cup {id}]
    /\ UNCHANGED <<hostOffset, now, probe, emailRecipients, emailLogs, lastRunYmd>>

\* PUT /api/recipients/:id with isActive in the body
PutRecipient(email, isActive) ==
    /\ email \in DOMAIN emailRecipients
    /\ emailRecipients[email] # isActive
    /\ budget.edits > 0
    /\ budget' = [budget EXCEPT !.edits = @ - 1]
    /\ emailRecipients' = [emailRecipients EXCEPT ![email] = isActive]
    /\ runs' = Disturbed(runs)
    /\ hist' = [hist EXCEPT !.undisturbed = FALSE]
    /\ UNCHANGED <<hostOffset, now, probe, certifications, emailLogs, lastRunYmd>>

(***************************************************************************)
(* The initial states: a bootstrapped process over a seeded database.      *)
(***************************************************************************)
Row(type, rNo, status, validityUpto, bisRNo, bisValidityUpto, iecRNo, iecValidityUpto) ==
    [type |-> type, rNo |-> rNo, status |-> status, modelList |-> NULL,
     standard |-> NULL, validityFrom |-> <<>>, validityUpto |-> validityUpto,
     alarmAlert |-> NULL, action |-> NULL,
     bisRNo |-> bisRNo, bisStatus |-> NULL, bisValidityFrom |-> <<>>,
     bisValidityUpto |-> bisValidityUpto,
     iecRNo |-> iecRNo, iecStatus |-> NULL, iecValidityFrom |-> <<>>,
     iecValidityUpto |-> iecValidityUpto]

\* a row of the row-wise structure (POST /api/certifications, the seed)
RowWise(type, validityUpto) ==
    Row(type, "R-1", "Active", validityUpto, NULL, <<>>, NULL, <<>>)

\* a row created with sno and plant only
BlankRow == Row("BIS", NULL, NULL, <<>>, NULL, <<>>, NULL, <<>>)

\* an older combined row: the two schemes in the bis*/iec* columns
CombinedRow ==
    Row("BIS & IEC", NULL, NULL, <<>>,
        "B-1", CivilTable[StartDay - 5], "I-1", CivilTable[StartDay + 10])

InitTables ==
    {[id \in {"c1"} |-> row] :
        row \in {RowWise("BIS", v) : v \in ValidityChoices} \cup {BlankRow, CombinedRow}}
    \cup {[id \in CertIds |->
              IF id = "c1" THEN RowWise("BIS", CivilTable[StartDay - 5])
              ELSE RowWise("IEC", CivilTable[StartDay + 10])]}

InitRecipients ==
    {[e \in Emails |-> e \in on] : on \in {Emails, {RecipientOrder[1]}, {}}}

NoHistory ==
    [started |-> 0, overlapped |-> FALSE, undisturbed |-> FALSE, tickAt |-> 0 - 1,
     full |-> {}, twice |-> FALSE, threwOn |-> {}, malformed |-> {}]

Init ==
    /\ hostOffset \in HostOffsets
    /\ now = StartInstant
    /\ probe = [ymd |-> <<>>, status |-> "none"]
    /\ certifications \in InitTables
    /\ emailRecipients \in InitRecipients
    /\ emailLogs = <<>>
    /\ runs = [r \in RunIds |-> IdleRun]
    /\ lastRunYmd = <<>>
    /\ budget = [runs |-> MaxRuns, overlap |-> FALSE, advances |-> MaxAdvances,
                 step |-> ClockStep, edits |-> MaxEdits, faults |-> MaxFaults]
    /\ hist = NoHistory

Next ==
    \/ \E r \in RunIds :
          \/ Tick(r)
          \/ ManualRun(r)
          \/ LoadRecipients(r)
          \/ LoadCerts(r)
          \/ OracleStep(r)
          \/ SendOk(r)
          \/ SendFail(r)
          \/ LogStep(r)
          \/ LogFail(r)
    \/ AdvanceClock
    \/ \E id \in CertIds, v \in ValidityChoices : PutCertification(id, v)
    \/ \E e \in Emails, b \in BOOLEAN : PutRecipient(e, b)

Spec == Init /\ [][Next]_vars

(***************************************************************************)
(* Properties of the dispatcher under sequential runs (Spec).              *)
(***************************************************************************)
Range(seq) == {seq[i] : i \in 1 .. Len(seq)}

SentLog(emailType) ==
    {i \in 1 .. Len(emailLogs) :
        emailLogs[i].status = "sent" /\ emailLogs[i].emailType = emailType}

SameKey(i, j) ==
    /\ emailLogs[i].certificationId = emailLogs[j].certificationId
    /\ emailLogs[i].recipientEmail = emailLogs[j].recipientEmail
    /\ emailLogs[i].milestone = emailLogs[j].milestone

\* all rows of a (certificationId, recipientEmail, milestone key), any status
KeyRows(certId, recipientEmail, milestone) ==
    {i \in 1 .. Len(emailLogs) :
        /\ emailLogs[i].certificationId = certId
        /\ emailLogs[i].recipientEmail = recipientEmail
        /\ emailLogs[i].milestone = milestone}

OnlyFailed(certId, recipientEmail, milestone) ==
    /\ KeyRows(certId, recipientEmail, milestone) # {}
    /\ \A i \in KeyRows(certId, recipientEmail, milestone) :
          emailLogs[i].status = "failed"

\* the calendar day of the fixed local zone (UTC+5:30) an instant falls on
IstDay(t) == UtcDay(t + IST_OFFSET)

\* what the stored row of a certification classifies to right now
StatusNow(id) ==
    getExpiryStatus(YmdOrEmpty(certifications[id].validityUpto), now)

\* C1: under sequential runs interleaved with validity-date edits, gateway
\* failures and recipient activation changes, the audit log never holds two
\* 'sent' 'reminder' rows for the same (certificationId, recipientEmail,
\* milestone key).
C1_ReminderAtMostOnce ==
    \A i \in SentLog("reminder") : \A j \in SentLog("reminder") :
        SameKey(i, j) => i = j

\* a later run met a reminder already sent, for a unit still on that rung and
\* a recipient still active, and finished without a delivery call
C1_Witness ==
    \E i \in SentLog("reminder") : \E r \in RunIds :
        /\ runs[r].pc = "done" /\ runs[r].calm /\ runs[r].readCerts
        /\ runs[r].serial > emailLogs[i].by
        /\ emailLogs[i].recipientEmail \in runs[r].activeAtLoad
        /\ emailLogs[i].certificationId \in DOMAIN certifications
        /\ StatusNow(emailLogs[i].certificationId) = emailLogs[i].milestone[2]
        /\ runs[r].calls = 0

\* C2: under sequential runs at any time of day and on any host zone, no two
\* 'sent' overdue rows of one (certificationId, recipientEmail, key) carry
\* timestamps of the same calendar day of UTC+5:30, and hasSentOverdueToday
\* answers "owed" only when the latest sent row's day in that zone is strictly
\* earlier than today's.
C2_OverdueOncePerDay ==
    /\ \A i \in SentLog("overdue") : \A j \in SentLog("overdue") :
          (SameKey(i, j) /\ IstDay(emailLogs[i].sentAt) = IstDay(emailLogs[j].sentAt))
              => i = j
    /\ \A r \in RunIds :
          (runs[r].pc = "oracle" /\ runs[r].status = "overdue") =>
              LET email == runs[r].recipients[runs[r].ri]
                  hits == SentRows(runs[r].cert.id, email, "overdue", runs[r].milestone)
              IN  ~hasSentOverdueToday(runs[r].cert.id, email, runs[r].milestone, now)
                      => \A i \in hits : IstDay(emailLogs[i].sentAt) < IstDay(now)

\* C3: a run that follows a run without failures at once (same clock reading,
\* no edit, no other run in between) makes no delivery call and writes no row.
C3_SecondRunIdle ==
    \A r \in RunIds : runs[r].second => (runs[r].calls = 0 /\ runs[r].wrote = 0)

\* C4: a recipient whose only rows for the unit's (certificationId,
\* recipientEmail, milestone key) are 'failed' is answered "owed" by the dedup
\* query and is in the send list of the run, in both regimes.
C4_FailedNeverSuppresses ==
    \A r \in RunIds :
        LET rec == runs[r]
            failedOnly(k) == OnlyFailed(rec.cert.id, rec.recipients[k], rec.milestone)
        IN  /\ rec.pc = "oracle" =>
                  /\ failedOnly(rec.ri) => ~Already(rec, rec.recipients[rec.ri], now)
                  /\ \A k \in 1 .. (rec.ri - 1) :
                        failedOnly(k) => rec.recipients[k] \in Range(rec.toSend)
            /\ rec.pc = "send" =>
                  \A k \in 1 .. Len(rec.recipients) :
                      failedOnly(k) => rec.recipients[k] \in Range(rec.toSend)

\* a run is about to deliver to a recipient whose earlier attempt failed
C4_Witness ==
    \E r \in RunIds :
        /\ runs[r].pc = "send"
        /\ \E e \in Range(runs[r].toSend) :
              /\ OnlyFailed(runs[r].cert.id, e, runs[r].milestone)
              /\ \E i \in KeyRows(runs[r].cert.id, e, runs[r].milestone) :
                    emailLogs[i].by < runs[r].serial

\* C6: a run that found no active recipient has returned with sent = 0 and
\* skipped = 0, has not read the certifications, has made no delivery call
\* and has written no audit row.
C6_NoRecipientsShortCircuit ==
    \A r \in RunIds :
        (runs[r].pc \notin {"idle", "recipients"} /\ runs[r].activeAtLoad = {}) =>
            /\ runs[r].pc = "done"
            /\ runs[r].sent = 0 /\ runs[r].skipped = 0
            /\ ~runs[r].readCerts
            /\ runs[r].calls = 0 /\ runs[r].wrote = 0
            /\ \A i \in 1 .. Len(emailLogs) : emailLogs[i].by # runs[r].serial

\* such a run has returned while an overdue certification was stored
C6_Witness ==
    \E r \in RunIds :
        /\ runs[r].pc = "done" /\ runs[r].serial > 0 /\ runs[r].activeAtLoad = {}
        /\ \E id \in DOMAIN certifications : StatusNow(id) = "overdue"

\* C7: the recipients a run works with, the addresses of its delivery calls
\* and the recipients of the rows it writes were all active when the run
\* loaded its recipients.
C7_OnlyActiveRecipients ==
    \A r \in RunIds :
        /\ Range(runs[r].recipients) \subseteq runs[r].activeAtLoad
        /\ Range(runs[r].toSend) \subseteq runs[r].activeAtLoad
        /\ \A i \in 1 .. Len(emailLogs) :
              emailLogs[i].by = runs[r].serial =>
                  emailLogs[i].recipientEmail \in runs[r].activeAtLoad

\* a recipient addressed by an earlier run is inactive now, and a later run
\* is about to deliver without it
C7_Witness ==
    \E r \in RunIds : \E e \in Emails :
        /\ ~emailRecipients[e]
        /\ \E i \in 1 .. Len(emailLogs) :
              emailLogs[i].recipientEmail = e /\ emailLogs[i].by < runs[r].serial
        /\ runs[r].pc = "send"
        /\ e \notin runs[r].activeAtLoad
        /\ e \notin Range(runs[r].toSend)

\* C8: an absent validity-end classifies 'safe' at every clock reading; no
\* run queries, delivers or logs for a certification whose validity-end it
\* read as absent, and a finished run has counted each of them as skipped.
C8_AbsentValidityIsSafe ==
    /\ getExpiryStatus(<<>>, now) = "safe"
    /\ \A r \in RunIds :
          /\ runs[r].pc \in {"oracle", "send", "log"} =>
                (runs[r].cert.validityUpto # <<>> /\ runs[r].cert.id \in runs[r].dated)
          /\ \A i \in 1 .. Len(emailLogs) :
                emailLogs[i].by = runs[r].serial =>
                    emailLogs[i].certificationId \in runs[r].dated
          /\ (runs[r].pc = "done" /\ runs[r].readCerts) =>
                runs[r].skipped >= Cardinality(runs[r].undated)

\* a run with an active recipient has finished over a certification without
\* validity-end: skipped, nothing delivered, nothing logged
C8_Witness ==
    \E r \in RunIds :
        /\ runs[r].pc = "done" /\ runs[r].readCerts
        /\ runs[r].activeAtLoad # {} /\ runs[r].undated # {}
        /\ runs[r].skipped >= 1 /\ runs[r].calls = 0 /\ runs[r].wrote = 0

(***************************************************************************)
(* Specification of the scheduler: the timer of bootstrap() alone, its     *)
(* callbacks one period apart, runs of any duration.                       *)
(***************************************************************************)
InitScheduler ==
    /\ hostOffset \in HostOffsets
    \* 03:15 UTC, 08:45 in the fixed local zone
    /\ now = StartDay * MS_PER_DAY + 3 * 60 + 15
    /\ probe = [ymd |-> <<>>, status |-> "none"]
    /\ certifications \in
          {[id \in {"c1"} |-> RowWise("BIS", v)] :
              v \in {CivilTable[StartDay - 5], CivilTable[StartDay + 10]}}
    /\ emailRecipients \in
          {[e \in Emails |-> e \in on] : on \in {Emails, {RecipientOrder[1]}}}
    /\ emailLogs = <<>>
    /\ runs = [r \in RunIds |-> IdleRun]
    /\ lastRunYmd = <<>>
    /\ budget = [runs |-> MaxRuns, overlap |-> TRUE, advances |-> MaxAdvances,
                 step |-> TICK_PERIOD, edits |-> 0, faults |-> 0]
    /\ hist = NoHistory

NextScheduler ==
    \/ \E r \in RunIds :
          \/ Tick(r)
          \/ LoadRecipients(r)
          \/ LoadCerts(r)
          \/ OracleStep(r)
          \/ SendOk(r)
          \/ LogStep(r)
    \/ AdvanceClock

SpecScheduler == InitScheduler /\ [][NextScheduler]_vars

\* C5: the timer never brings a second full run to its end for a calendar
\* day of the fixed local zone, whatever the timing of the callbacks and the
\* duration of a run.
C5_OneFullRunPerDay == ~hist.twice

(***************************************************************************)
(* Specification of the classifier alone: every (today, validity-end)      *)
(* pair of the bounded range, on every host zone.                          *)
(***************************************************************************)
ClassifyFirstDay == DaysFromCivil(<<FirstYear, 0, 1>>) + LookBack + 2

InitClassify ==
    /\ hostOffset \in HostOffsets
    /\ certifications \in {[id \in {"c1"} |-> RowWise("BIS", <<>>)]}
    /\ emailRecipients = [e \in Emails |-> TRUE]
    /\ emailLogs = <<>>
    /\ runs = [r \in RunIds |-> IdleRun]
    /\ lastRunYmd = <<>>
    /\ budget = [runs |-> 0, overlap |-> FALSE, advances |-> 0, step |-> 0,
                 edits |-> 0, faults |-> 0]
    /\ hist = NoHistory
    /\ \E day \in ClassifyFirstDay .. (ClassifyFirstDay + ClassifySpan) :
          /\ now = day * MS_PER_DAY + 720
          /\ \E delta \in (0 - LookBack) .. LookAhead :
                probe = [ymd |-> CivilTable[day + delta], status |-> "none"]

Classify ==
    /\ probe.status = "none"
    /\ probe' = [probe EXCEPT !.status = getExpiryStatus(probe.ymd, now)]
    /\ UNCHANGED <<hostOffset, now, certifications, emailRecipients, emailLogs,
                   runs, lastRunYmd, budget, hist>>

NextClassify == Classify

SpecClassify == InitClassify /\ [][NextClassify]_vars

\* the two calendar dates of a probe, as day numbers, and their distances
ProbeToday == LocalDay(now)
ProbeEnd == DaysFromCivil(probe.ymd)
ProbeDaysUntil == ProbeEnd - ProbeToday
ProbeMonthsUntil ==
    LET t == CivilTable[ProbeToday]
        e == probe.ymd
        diff == (e[1] * 12 + e[2]) - (t[1] * 12 + t[2])
    IN  IF e[3] < t[3] THEN diff - 1 ELSE diff

\* C9: for every pair (today, validityEnd) the classifier answers 'overdue'
\* iff validityEnd < today, 'day-before' iff days-until is 0 or 1, 'week' iff
\* it is 2..7 and '2-weeks' iff it is 8..14.
C9_DayRungs ==
    probe.status # "none" =>
        /\ (probe.status = "overdue") <=> (ProbeEnd < ProbeToday)
        /\ (probe.status = "day-before") <=> (ProbeDaysUntil \in 0 .. 1)
        /\ (probe.status = "week") <=> (ProbeDaysUntil \in 2 .. 7)
        /\ (probe.status = "2-weeks") <=> (ProbeDaysUntil \in 8 .. 14)

\* C10: beyond 14 days the classifier answers 'month', '3-months', '6-months'
\* or 'safe' according to calendar-months-until <= 1, <= 3, <= 6 or > 6.
C10_MonthRungs ==
    (probe.status # "none" /\ ProbeDaysUntil > 14) =>
        probe.status =
            IF ProbeMonthsUntil <= 1 THEN "month"
            ELSE IF ProbeMonthsUntil <= 3 THEN "3-months"
            ELSE IF ProbeMonthsUntil <= 6 THEN "6-months"
            ELSE "safe"

(***************************************************************************)
(* Specification of scenario A: one run, on any day of the range, over one *)
(* certification whose validity-end is a fixed number of days ahead.       *)
(***************************************************************************)
InitScenario ==
    /\ hostOffset \in HostOffsets
    /\ probe = [ymd |-> <<>>, status |-> "none"]
    /\ emailRecipients \in
          {[e \in Emails |-> e \in on] : on \in {Emails, {RecipientOrder[1]}}}
    /\ emailLogs = <<>>
    /\ runs = [r \in RunIds |-> IdleRun]
    /\ lastRunYmd = <<>>
    /\ budget = [runs |-> 1, overlap |-> FALSE, advances |-> 0, step |-> 0,
                 edits |-> 0, faults |-> 0]
    /\ hist = NoHistory
    /\ \E day \in ClassifyFirstDay .. (ClassifyFirstDay + ClassifySpan) :
          /\ now = day * MS_PER_DAY + 8 * 60
          /\ \E ahead \in {ScenarioNear, ScenarioFar} :
                certifications =
                    [id \in {"c1"} |-> RowWise("BIS", CivilTable[day + ahead])]

NextScenario ==
    \E r \in RunIds :
        \/ ManualRun(r)
        \/ LoadRecipients(r)
        \/ LoadCerts(r)
        \/ OracleStep(r)
        \/ SendOk(r)
        \/ LogStep(r)

SpecScenario == InitScenario /\ [][NextScenario]_vars

\* days from today (the day of the clock, the same in every zone of the
\* model at 08:00 UTC) to the stored validity-end of c1
DaysAhead == DaysFromCivil(certifications["c1"].validityUpto) - UtcDay(now)

\* a run over the one certification has returned
ScenarioDone(r) == runs[r].pc = "done" /\ runs[r].readCerts

\* C11 as stated: a validity-end 200 days ahead is classified 'safe' and a
\* run processes it with zero sends and exactly one skip.
C11_ScenarioA ==
    DaysAhead = ScenarioNear =>
        /\ StatusNow("c1") = "safe"
        /\ \A r \in RunIds :
              /\ runs[r].calls = 0 /\ runs[r].wrote = 0
              /\ ScenarioDone(r) => (runs[r].sent = 0 /\ runs[r].skipped = 1)

\* C11 amended: a validity-end 200 days ahead is classified '6-months'
\* (calendar-months-until is 6); one 220 days ahead (calendar-months-until
\* above 6) is classified 'safe' and a run processes it with zero sends and
\* exactly one skip.
C11_ScenarioAmended ==
    /\ DaysAhead = ScenarioNear => StatusNow("c1") = "6-months"
    /\ DaysAhead = ScenarioFar =>
          /\ StatusNow("c1") = "safe"
          /\ \A r \in RunIds :
                /\ runs[r].calls = 0 /\ runs[r].wrote = 0
                /\ ScenarioDone(r) => (runs[r].sent = 0 /\ runs[r].skipped = 1)

\* a run with an active recipient has returned over the far certification
C11_Witness ==
    /\ DaysAhead = ScenarioFar
    /\ \E r \in RunIds :
          ScenarioDone(r) /\ runs[r].activeAtLoad # {} /\ runs[r].skipped = 1

(***************************************************************************)
(* Further properties of the dispatcher under sequential runs (Spec).      *)
(***************************************************************************)
\* the 'sent' overdue rows of a certification and a recipient stamped on the
\* calendar day of UTC+5:30 the clock is on
SentOverdueToday(id, email) ==
    {i \in SentLog("overdue") :
        /\ emailLogs[i].certificationId = id
        /\ emailLogs[i].recipientEmail = email
        /\ IstDay(emailLogs[i].sentAt) = IstDay(now)}

\* C12: with a working gateway, once a run has returned on a day, every
\* overdue certification has exactly one 'sent' overdue row of that day for
\* each recipient of the run: the first run of a day writes one, a further
\* run of the day writes none, the first run of the next day one more.
C12_OverdueDaily ==
    \A r \in RunIds :
        (ScenarioDone(r) /\ runs[r].calm /\ budget.faults = MaxFaults) =>
            \A id \in DOMAIN certifications :
                StatusNow(id) = "overdue" =>
                    \A e \in runs[r].activeAtLoad :
                        Cardinality(SentOverdueToday(id, e)) = 1

(***************************************************************************)
(* Specification of bucket revisits: runs with a working gateway at one    *)
(* clock reading, and validity-date edits between and during them.         *)
(***************************************************************************)
InitRevisit ==
    /\ hostOffset \in HostOffsets
    /\ now = StartInstant
    /\ probe = [ymd |-> <<>>, status |-> "none"]
    /\ certifications \in
          {[id \in {"c1"} |-> RowWise("BIS", CivilTable[StartDay + k])] : k \in {10, 20}}
    /\ emailRecipients \in
          {[e \in Emails |-> e \in on] : on \in {Emails, {RecipientOrder[1]}}}
    /\ emailLogs = <<>>
    /\ runs = [r \in RunIds |-> IdleRun]
    /\ lastRunYmd = <<>>
    /\ budget = [runs |-> MaxRuns, overlap |-> FALSE, advances |-> 0, step |-> 0,
                 edits |-> MaxEdits + 1, faults |-> 0]
    /\ hist = NoHistory

NextRevisit ==
    \/ \E r \in RunIds :
          \/ ManualRun(r)
          \/ LoadRecipients(r)
          \/ LoadCerts(r)
          \/ OracleStep(r)
          \/ SendOk(r)
          \/ LogStep(r)
    \/ \E id \in CertIds, v \in ValidityChoices : PutCertification(id, v)

SpecRevisit == InitRevisit /\ [][NextRevisit]_vars

\* the 'sent' reminder rows of a certification and a recipient under a key
SentReminders(id, email, milestone) ==
    {i \in SentLog("reminder") :
        /\ emailLogs[i].certificationId = id
        /\ emailLogs[i].recipientEmail = email
        /\ emailLogs[i].milestone = milestone}

\* the milestone key the stored row-wise record of a certification is on
KeyNow(id) ==
    <<IF normalizeCertType(certifications[id].type) = "IEC" THEN "IEC" ELSE "BIS",
      StatusNow(id)>>

\* C13: once a run has returned, every certification on a reminder rung has
\* exactly one 'sent' row under its present key for each recipient of the
\* run, whatever rows exist under its other keys: a row of another key never
\* suppresses the present one, and the present key is never sent twice, also
\* after the certification left its rung and came back.
C13_PerKeySuppression ==
    \A r \in RunIds :
        (ScenarioDone(r) /\ runs[r].calm) =>
            \A id \in DOMAIN certifications :
                StatusNow(id) \notin {"safe", "overdue"} =>
                    \A e \in runs[r].activeAtLoad :
                        Cardinality(SentReminders(id, e, KeyNow(id))) = 1

\* the certification is back on a rung it was notified for before it was
\* notified for another one, and a later run has returned without a call
C13_Witness ==
    \E r \in RunIds : \E e \in runs[r].activeAtLoad :
        /\ ScenarioDone(r) /\ runs[r].calm /\ runs[r].calls = 0
        /\ StatusNow("c1") \notin {"safe", "overdue"}
        /\ \E i \in SentReminders("c1", e, KeyNow("c1")) :
              \E j \in SentLog("reminder") :
                  /\ emailLogs[j].certificationId = "c1"
                  /\ emailLogs[j].recipientEmail = e
                  /\ emailLogs[j].milestone # KeyNow("c1")
                  /\ emailLogs[i].by < emailLogs[j].by
                  /\ emailLogs[j].by < runs[r].serial

\* the rows a run has written for the unit it is working on
UnitRows(r) ==
    {i \in 1 .. Len(emailLogs) :
        /\ emailLogs[i].by = runs[r].serial
        /\ emailLogs[i].certificationId = runs[r].cert.id
        /\ emailLogs[i].milestone = runs[r].milestone}

\* C14: when a run is about to make the delivery call of a unit, the send
\* list is exactly the recipients of the run the dedup query answers "owed"
\* for, in their order, and is not empty; the rows written for the unit are
\* for recipients of the send list only; every unit or empty record met is
\* either skipped or given one delivery call, never both, never two calls.
C14_SendListExact ==
    \A r \in RunIds :
        LET rec == runs[r]
        IN  /\ (rec.pc = "send" /\ (rec.calm \/ rec.status # "overdue")) =>
                  /\ rec.toSend # <<>>
                  /\ rec.toSend =
                        SelectSeq(rec.recipients, LAMBDA e : ~Already(rec, e, now))
            /\ rec.pc = "log" =>
                  \A i \in UnitRows(r) : emailLogs[i].recipientEmail \in Range(rec.toSend)
            /\ rec.pc \in {"oracle", "send"} => rec.skipped + rec.calls = rec.items - 1
            /\ rec.pc \in {"log", "done", "threw"} => rec.skipped + rec.calls = rec.items

\* scenario D: of two recipients the first has a 'sent' reminder row of an
\* earlier run under the unit's key, and the send list is the second alone
C14_Witness ==
    \E r \in RunIds :
        /\ runs[r].pc = "send" /\ runs[r].status # "overdue"
        /\ Len(runs[r].recipients) = 2 /\ Len(runs[r].toSend) = 1
        /\ runs[r].toSend[1] = runs[r].recipients[2]
        /\ \E i \in SentReminders(runs[r].cert.id, runs[r].recipients[1],
                                  runs[r].milestone) :
              emailLogs[i].by < runs[r].serial

\* the rows a run has written for a certification
RowsOf(serial, id, status) ==
    {i \in 1 .. Len(emailLogs) :
        /\ emailLogs[i].by = serial
        /\ emailLogs[i].certificationId = id
        /\ emailLogs[i].status = status}

\* C15: a sendEmail call that throws is not counted in 'sent' (the calls that
\* returned and the calls that threw never add up to more than the calls
\* made), the step that follows the call never leaves the run, and a run
\* that returns has met every certification it loaded.
C15_DeliveryFailureIsolated ==
    /\ [](\A r \in RunIds :
             /\ runs[r].sent + runs[r].bounced <= runs[r].calls
             /\ (runs[r].pc = "done" /\ runs[r].readCerts) =>
                   runs[r].items >= Cardinality(runs[r].dated \cup runs[r].undated))
    /\ [][\A r \in RunIds :
             runs[r].pc = "send" =>
                 /\ runs'[r].pc \in {"send", "log"}
                 /\ runs'[r].sent = runs[r].sent]_vars

\* the gateway threw for the first certification of a run, which has logged
\* the failure, gone on to the second one, delivered it and returned
C15_Witness ==
    \E r \in RunIds :
        /\ runs[r].pc = "done" /\ runs[r].bounced = 1 /\ runs[r].sent = 1
        /\ RowsOf(runs[r].serial, CertOrder[1], "failed") # {}
        /\ RowsOf(runs[r].serial, CertOrder[1], "sent") = {}
        /\ RowsOf(runs[r].serial, CertOrder[2], "sent") # {}

\* C16: a step in which an INSERT of addEmailLogRow fails takes the run out
\* of runNotificationJob with the error.
C16_InsertFailurePropagates ==
    [][\A r \in RunIds :
          (runs[r].pc = "log" /\ budget'.faults < budget.faults) =>
              runs'[r].pc = "threw"]_vars

\* C17: the step that ends the logging of a delivery attempt leaves, for the
\* unit of the attempt, exactly one row of this run per recipient of the send
\* list and none for anyone else, each of the kind of the attempt, 'sent'
\* without error text when sendEmail returned and 'failed' with it when
\* sendEmail threw.
C17_OneRowPerRecipient ==
    [][\A r \in RunIds :
          (runs[r].pc = "log" /\ runs'[r].pc \notin {"log", "threw"}) =>
              LET rec == runs[r]
                  rows == {i \in 1 .. Len(emailLogs') :
                              /\ emailLogs'[i].by = rec.serial
                              /\ emailLogs'[i].certificationId = rec.cert.id
                              /\ emailLogs'[i].milestone = rec.milestone}
              IN  /\ \A e \in Emails :
                        Cardinality({i \in rows : emailLogs'[i].recipientEmail = e})
                            = IF e \in Range(rec.toSend) THEN 1 ELSE 0
                  /\ \A i \in rows :
                        /\ emailLogs'[i].emailType = EmailType(rec)
                        /\ emailLogs'[i].status =
                              IF rec.accepted THEN "sent" ELSE "failed"
                        /\ (emailLogs'[i].error = NULL) = rec.accepted]_vars

(***************************************************************************)
(* The life of the audit rows: DELETE of a certification and the admin     *)
(* reset, with runs in progress (SpecLifecycle).                           *)
(***************************************************************************)
\* variant: the foreign key without ON DELETE CASCADE and not enforced
NoCascade(gone) == emailLogs

\* FK_EmailLogs_Certifications ... ON DELETE CASCADE
Cascade(gone) ==
    SelectSeq(emailLogs, LAMBDA row : row.certificationId \notin gone)

\* DELETE /api/certifications/:id
DeleteCertification(id) ==
    /\ id \in DOMAIN certifications
    /\ budget.edits > 0
    /\ budget' = [budget EXCEPT !.edits = @ - 1]
    /\ certifications' = [c \in DOMAIN certifications \ {id} |-> certifications[c]]
    /\ emailLogs' = Cascade({id})
    /\ runs' = Disturbed(runs)
    /\ hist' = [hist EXCEPT !.undisturbed = FALSE]
    /\ UNCHANGED <<hostOffset, now, probe, emailRecipients, lastRunYmd>>

\* POST /api/admin/reset-from-excel, one transaction: the three tables are
\* emptied, the default recipients are seeded active and the sheet's rows
\* are imported row-wise under fresh ids
ResetFromExcel(type, validityUpto) ==
    /\ ImportedId \notin DOMAIN certifications
    /\ budget.edits > 0
    /\ budget' = [budget EXCEPT !.edits = @ - 1]
    /\ emailLogs' = <<>>
    /\ certifications' =
          [c \in {ImportedId} |->
              RowWise(IF normalizeCertType(type) = "BIS & IEC"
                      THEN "BIS" ELSE normalizeCertType(type),
                      DateParam(parseDateOrNull(validityUpto)))]
    /\ emailRecipients' = [e \in Emails |-> TRUE]
    /\ runs' = Disturbed(runs)
    /\ hist' = [hist EXCEPT !.undisturbed = FALSE]
    /\ UNCHANGED <<hostOffset, now, probe, lastRunYmd>>

\* the INSERT of addEmailLogRow for a certification that is gone violates
\* the foreign key and throws: in the try block the catch takes it, in the
\* catch block it leaves the run
LogRejected(r) ==
    /\ runs[r].pc = "log"
    /\ runs[r].cert.id \notin DOMAIN certifications
    /\ LET rec == runs[r]
           next == IF rec.mailOk
                   THEN [rec EXCEPT !.mailOk = FALSE, !.li = 1, !.stamp = now]
                   ELSE Throw(rec)
       IN  Settle(r, Upset(next), Disturbed(runs))
    /\ UNCHANGED <<hostOffset, now, probe, certifications, emailRecipients,
                   emailLogs, budget>>

InitLifecycle ==
    /\ hostOffset = IST_OFFSET
    /\ now = StartInstant
    /\ probe = [ymd |-> <<>>, status |-> "none"]
    /\ certifications \in
          {[id \in S |-> IF id = CertOrder[1]
                         THEN RowWise("BIS", CivilTable[StartDay - 5])
                         ELSE RowWise("IEC", CivilTable[StartDay + 10])] :
              S \in {CertIds, {CertOrder[1]}}}
    /\ emailRecipients \in {[e \in Emails |-> e \in on] :
                               on \in {Emails, {RecipientOrder[1]}}}
    /\ emailLogs = <<>>
    /\ runs = [r \in RunIds |-> IdleRun]
    /\ lastRunYmd = <<>>
    /\ budget = [runs |-> MaxRuns - 1, overlap |-> FALSE, advances |-> 0,
                 step |-> ClockStep, edits |-> MaxEdits + 1, faults |-> 0]
    /\ hist = NoHistory

NextLifecycle ==
    \/ \E r \in RunIds :
          \/ ManualRun(r)
          \/ LoadRecipients(r)
          \/ LoadCerts(r)
          \/ OracleStep(r)
          \/ SendOk(r)
          \/ LogStep(r)
          \/ LogRejected(r)
    \/ \E id \in CertIds : DeleteCertification(id)
    \/ \E v \in {<<>>, CivilTable[StartDay + 10]} : ResetFromExcel("BIS & IEC", v)

SpecLifecycle == InitLifecycle /\ [][NextLifecycle]_vars

\* C18: every audit row references a stored certification, in every state,
\* also while a run holds a certification that has been deleted; and a step
\* leaves the audit log as it was, up to the rows whose certification the
\* step removed (deletion with cascade, reset) and at most one row appended
\* at the end: no row is modified and no row leaves otherwise.
C18_AuditLogLifecycle ==
    /\ [](\A i \in 1 .. Len(emailLogs) :
             emailLogs[i].certificationId \in DOMAIN certifications)
    /\ [][LET kept == SelectSeq(emailLogs,
                          LAMBDA row : row.certificationId \in DOMAIN certifications')
          IN  \/ emailLogs' = kept
              \/ /\ Len(emailLogs') = Len(kept) + 1
                 /\ SubSeq(emailLogs', 1, Len(kept)) = kept]_vars

\* a run delivered the email of a certification and wrote a row, the
\* certification was deleted (the row went with it), and the run's next
\* INSERT for it was rejected
C18_Witness ==
    \E r \in RunIds :
        /\ runs[r].pc = "log" /\ runs[r].accepted /\ ~runs[r].mailOk
        /\ runs[r].wrote >= 1
        /\ runs[r].cert.id \notin DOMAIN certifications
        /\ \A i \in 1 .. Len(emailLogs) :
              emailLogs[i].certificationId # runs[r].cert.id

(***************************************************************************)
(* Overlapping executions: a manual run while a scheduled run is in        *)
(* progress, or the other way round (SpecConcurrent).                      *)
(***************************************************************************)
InitConcurrent ==
    /\ hostOffset \in HostOffsets
    /\ now = StartInstant
    /\ probe = [ymd |-> <<>>, status |-> "none"]
    /\ certifications \in
          {[id \in {CertOrder[1]} |-> RowWise("BIS", CivilTable[StartDay + k])] :
              k \in {10, 20}}
    /\ emailRecipients \in {[e \in Emails |-> e \in on] :
                               on \in {Emails, {RecipientOrder[1]}}}
    /\ emailLogs = <<>>
    /\ runs = [r \in RunIds |-> IdleRun]
    /\ lastRunYmd = <<>>
    /\ budget = [runs |-> MaxRuns, overlap |-> TRUE, advances |-> 0,
                 step |-> ClockStep, edits |-> 0, faults |-> 0]
    /\ hist = NoHistory

NextConcurrent ==
    \E r \in RunIds :
        \/ Tick(r)
        \/ ManualRun(r)
        \/ LoadRecipients(r)
        \/ LoadCerts(r)
        \/ OracleStep(r)
        \/ SendOk(r)
        \/ LogStep(r)

SpecConcurrent == InitConcurrent /\ [][NextConcurrent]_vars

\* C19: with runs allowed to interleave, two 'sent' reminder rows for the
\* same (certification, recipient, milestone key) are never written by the
\* same run, and never at all as long as no two runs have been in progress
\* together; the reachable state with the two rows is C19_Witness.
C19_DuplicatesNeedOverlap ==
    \A i, j \in 1 .. Len(emailLogs) :
        (/\ i < j
         /\ SameKey(i, j)
         /\ emailLogs[i].emailType = "reminder"
         /\ emailLogs[i].status = "sent" /\ emailLogs[j].status = "sent") =>
            /\ emailLogs[i].by # emailLogs[j].by
            /\ hist.overlapped

\* two runs that were in progress together have each made one delivery call
\* and each written a 'sent' row for the same recipient under the same key
C19_Witness ==
    \E i, j \in 1 .. Len(emailLogs) :
        /\ i < j /\ SameKey(i, j)
        /\ emailLogs[i].status = "sent" /\ emailLogs[j].status = "sent"
        /\ emailLogs[i].by # emailLogs[j].by
        /\ \E r, q \in RunIds :
              /\ runs[r].serial = emailLogs[i].by /\ runs[q].serial = emailLogs[j].by
              /\ runs[r].calls = 1 /\ runs[q].calls = 1
              /\ {runs[r].kind, runs[q].kind} = {"tick", "manual"}

\* a stored record with both scheme groups and no row-level field
IsCombined(row) ==
    /\ row.rNo = NULL /\ row.status = NULL /\ row.modelList = NULL
    /\ row.standard = NULL /\ row.alarmAlert = NULL /\ row.action = NULL
    /\ row.validityFrom = <<>> /\ row.validityUpto = <<>>
    /\ row.bisRNo # NULL /\ row.iecRNo # NULL

\* C20: a first run that loaded a combined record and returned undisturbed
\* has handled it as two units: for each scheme whose own validity end is not
\* 'safe', every recipient of the run has a 'sent' row under the key of that
\* scheme and that status.
C20_CombinedRecordTwoUnits ==
    \A r \in RunIds :
        (/\ runs[r].pc = "done" /\ runs[r].readCerts
         /\ runs[r].calm /\ runs[r].serial = 1) =>
            \A id \in DOMAIN certifications :
                IsCombined(certifications[id]) =>
                    \A scheme \in {"BIS", "IEC"} :
                        LET upto == YmdOrEmpty(IF scheme = "BIS"
                                               THEN certifications[id].bisValidityUpto
                                               ELSE certifications[id].iecValidityUpto)
                            status == getExpiryStatus(upto, now)
                        IN  status # "safe" =>
                                \A e \in runs[r].activeAtLoad :
                                    \E i \in 1 .. Len(emailLogs) :
                                        /\ emailLogs[i].certificationId = id
                                        /\ emailLogs[i].recipientEmail = e
                                        /\ emailLogs[i].milestone = <<scheme, status>>
                                        /\ emailLogs[i].status = "sent"

\* C21: a 'failed' row is written only in an attempt whose sendEmail call
\* threw, and no run leaves both a 'sent' and a 'failed' row for one
\* recipient under one key.
C21_FailedOnlyWhenRejected ==
    /\ \A r \in RunIds :
          runs[r].pc = "log" =>
              \A i \in UnitRows(r) :
                  emailLogs[i].status = "failed" => ~runs[r].accepted
    /\ \A i, j \in 1 .. Len(emailLogs) :
          (SameKey(i, j) /\ emailLogs[i].by = emailLogs[j].by) =>
              emailLogs[i].status = emailLogs[j].status

\* C22: the rows a run writes for one certification under one key carry the
\* same sentAt.
C22_OneTimestampPerAttempt ==
    \A i, j \in 1 .. Len(emailLogs) :
        (/\ emailLogs[i].by = emailLogs[j].by
         /\ emailLogs[i].certificationId = emailLogs[j].certificationId
         /\ emailLogs[i].milestone = emailLogs[j].milestone) =>
            emailLogs[i].sentAt = emailLogs[j].sentAt

(***************************************************************************)
(* The scheduler with a gateway that rejects and a database that fails:    *)
(* ticks a period apart, one run at a time (SpecRetry).                    *)
(***************************************************************************)
InitRetry ==
    /\ hostOffset \in HostOffsets
    \* 03:15 UTC, 08:45 in the fixed local zone
    /\ now = StartDay * MS_PER_DAY + 3 * 60 + 15
    /\ probe = [ymd |-> <<>>, status |-> "none"]
    /\ certifications \in
          {[id \in {CertOrder[1]} |-> RowWise("BIS", CivilTable[StartDay + k])] :
              k \in {0 - 5, 10}}
    /\ emailRecipients \in {[e \in Emails |-> e \in on] :
                               on \in {Emails, {RecipientOrder[1]}, {}}}
    /\ emailLogs = <<>>
    /\ runs = [r \in RunIds |-> IdleRun]
    /\ lastRunYmd = <<>>
    /\ budget = [runs |-> MaxRuns, overlap |-> FALSE, advances |-> MaxAdvances,
                 step |-> TICK_PERIOD, edits |-> 0, faults |-> MaxFaults + 1]
    /\ hist = NoHistory

NextRetry ==
    \/ \E r \in RunIds :
          \/ Tick(r)
          \/ LoadRecipients(r)
          \/ LoadCerts(r)
          \/ OracleStep(r)
          \/ SendOk(r)
          \/ SendFail(r)
          \/ LogStep(r)
          \/ LogFail(r)
    \/ AdvanceClock

SpecRetry == InitRetry /\ [][NextRetry]_vars

\* a scheduled run begins in this step
TickBegins(r) ==
    /\ hist'.started = hist.started + 1
    /\ runs'[r].serial = hist'.started
    /\ runs'[r].kind = "tick"

\* C23: a scheduled run begins only at or after 09:00 of the fixed local zone
\* with the marker different from that zone's date; the marker changes only
\* in the step in which a scheduled run returns, to the date of its tick; the
\* step in which a run throws leaves the marker alone.
C23_SchedulerGating ==
    [][/\ \A r \in RunIds :
             TickBegins(r) =>
                 /\ (now + IST_OFFSET) % MS_PER_DAY >= 9 * 60
                 /\ lastRunYmd # CivilTable[IstDay(now)]
       /\ lastRunYmd' # lastRunYmd =>
             \E r \in RunIds :
                 /\ Active(r) /\ runs[r].kind = "tick"
                 /\ runs'[r].pc = "done"
                 /\ lastRunYmd' = runs[r].ymd
       /\ \A r \in RunIds :
             (Active(r) /\ runs'[r].pc = "threw") => lastRunYmd' = lastRunYmd]_vars

\* a scheduled run threw, and a later tick of the same day has started the
\* dispatcher again
C23_Witness ==
    \E r \in RunIds :
        /\ runs[r].kind = "tick" /\ runs[r].pc = "recipients"
        /\ runs[r].ymd \in hist.threwOn
        /\ runs[r].ymd = CivilTable[IstDay(now)]

\* C24: after a scheduled run in which a delivery failed, the marker does not
\* stop the next tick of the same day from calling the dispatcher again.
C24_FailedSendRetriedSameDay ==
    \A r \in RunIds :
        (/\ runs[r].kind = "tick" /\ runs[r].pc = "done"
         /\ runs[r].bounced > 0
         /\ runs[r].ymd = CivilTable[IstDay(now)]) =>
            lastRunYmd # CivilTable[IstDay(now)]

(***************************************************************************)
(* The process stops in the middle of a run and is started again           *)
(* (SpecCrash): the tables stay, the runs and the marker are gone.         *)
(***************************************************************************)
\* the process is killed at an await of a run; bootstrap() of the next
\* process starts with "let lastRunYmd = null" and no run
Crash ==
    /\ ActiveRuns # {}
    /\ budget.faults > 0
    /\ budget' = [budget EXCEPT !.faults = @ - 1]
    /\ runs' = [r \in RunIds |-> IdleRun]
    /\ lastRunYmd' = <<>>
    /\ hist' = [hist EXCEPT !.undisturbed = FALSE]
    /\ UNCHANGED <<hostOffset, now, probe, certifications, emailRecipients,
                   emailLogs>>

InitCrash ==
    /\ hostOffset \in HostOffsets
    /\ now = StartInstant
    /\ probe = [ymd |-> <<>>, status |-> "none"]
    /\ certifications \in
          {[id \in S |-> IF id = CertOrder[1]
                         THEN RowWise("BIS", CivilTable[StartDay - 5])
                         ELSE RowWise("IEC", CivilTable[StartDay + 10])] :
              S \in {CertIds, {CertOrder[1]}, {CertOrder[2]}}}
    /\ emailRecipients \in {[e \in Emails |-> e \in on] :
                               on \in {Emails, {RecipientOrder[1]}}}
    /\ emailLogs = <<>>
    /\ runs = [r \in RunIds |-> IdleRun]
    /\ lastRunYmd = <<>>
    /\ budget = [runs |-> MaxRuns, overlap |-> FALSE, advances |-> MaxAdvances - 2,
                 step |-> ClockStep, edits |-> 0, faults |-> MaxFaults]
    /\ hist = NoHistory

NextCrash ==
    \/ \E r \in RunIds :
          \/ Tick(r)
          \/ ManualRun(r)
          \/ LoadRecipients(r)
          \/ LoadCerts(r)
          \/ OracleStep(r)
          \/ SendOk(r)
          \/ LogStep(r)
    \/ AdvanceClock
    \/ Crash

SpecCrash == InitCrash /\ [][NextCrash]_vars

\* the recipient has no 'sent' row for the unit of the run: none under the
\* key for a reminder, none on the present day of the fixed local zone for
\* overdue
Unsent(rec, email) ==
    \A i \in 1 .. Len(emailLogs) :
        (/\ emailLogs[i].certificationId = rec.cert.id
         /\ emailLogs[i].recipientEmail = email
         /\ emailLogs[i].milestone = rec.milestone
         /\ emailLogs[i].status = "sent"
         /\ emailLogs[i].emailType = EmailType(rec)) =>
            (rec.status = "overdue" /\ IstDay(emailLogs[i].sentAt) # IstDay(now))

\* C25: with the process stopped at any step of a run and started again, a
\* run sends a unit to exactly the recipients that have no 'sent' row for it
\* (none today for overdue), and the log never holds two 'sent' rows for one
\* reminder triple, nor two 'sent' overdue rows of one day for one triple.
C25_CrashTolerance ==
    /\ \A r \in RunIds :
          runs[r].pc = "send" =>
              runs[r].toSend =
                  SelectSeq(runs[r].recipients, LAMBDA e : Unsent(runs[r], e))
    /\ \A i, j \in 1 .. Len(emailLogs) :
          (/\ i < j /\ SameKey(i, j)
           /\ emailLogs[i].status = "sent" /\ emailLogs[j].status = "sent") =>
              /\ emailLogs[i].emailType = "overdue"
              /\ IstDay(emailLogs[i].sentAt) # IstDay(emailLogs[j].sentAt)

(***************************************************************************)
(* Validity ends that do not parse: the classifier called with them, and   *)
(* PUT /api/certifications/:id given them, before and during runs          *)
(* (SpecMalformed).                                                        *)
(***************************************************************************)
InitMalformed ==
    /\ hostOffset \in HostOffsets
    /\ \E k \in 0 .. LookBack : now = StartInstant + k * MS_PER_DAY
    /\ probe \in {[ymd |-> v, status |-> "none"] : v \in Unparseable}
    /\ certifications \in
          {[id \in {CertOrder[1]} |-> RowWise("BIS", CivilTable[StartDay + 10])]}
    /\ emailRecipients = [e \in Emails |-> e = RecipientOrder[1]]
    /\ emailLogs = <<>>
    /\ runs = [r \in RunIds |-> IdleRun]
    /\ lastRunYmd = <<>>
    /\ budget = [runs |-> MaxRuns - 1, overlap |-> FALSE, advances |-> 0,
                 step |-> ClockStep, edits |-> MaxEdits, faults |-> 0]
    /\ hist = NoHistory

NextMalformed ==
    \/ Classify
    \/ \E r \in RunIds :
          \/ ManualRun(r)
          \/ LoadRecipients(r)
          \/ LoadCerts(r)
          \/ OracleStep(r)
          \/ SendOk(r)
          \/ LogStep(r)
    \/ \E id \in CertIds, v \in Unparseable : PutCertification(id, v)

SpecMalformed == InitMalformed /\ [][NextMalformed]_vars

\* C26: the classifier answers 'safe' for a validity end that does not
\* parse; a certification last written with such a value is stored without
\* a date, and a run that loads it writes no row for it.
C26_UnparseableIsSafe ==
    /\ (probe.status # "none" /\ ~IsDateString(probe.ymd)) => probe.status = "safe"
    /\ \A id \in hist.malformed :
          /\ certifications[id].validityUpto = <<>>
          /\ \A r \in RunIds :
                (runs[r].readCerts /\ id \in runs[r].undated) =>
                    /\ RowsOf(runs[r].serial, id, "sent") = {}
                    /\ RowsOf(runs[r].serial, id, "failed") = {}
                    /\ runs[r].calls = 0

\* the classifier has answered for an unparseable value, and a run with a
\* recipient has gone over a certification written with one and skipped it
C26_Witness ==
    /\ probe.status = "safe" /\ ~IsDateString(probe.ymd)
    /\ \E r \in RunIds :
          /\ runs[r].pc = "done" /\ runs[r].activeAtLoad # {}
          /\ runs[r].undated \cap hist.malformed # {}
          /\ runs[r].skipped = 1 /\ runs[r].sent = 0

(***************************************************************************)
(* The badge of the browser (src/lib/expiryUtils.ts) next to the bucket of *)
(* the server, for the same clock and zone (SpecBadge).  The date-fns      *)
(* functions are taken with their documented results in a zone without     *)
(* daylight saving; the rungs after '2-weeks', which rest on               *)
(* differenceInMonths, are one value "later".                              *)
(***************************************************************************)
\* parseISO("YYYY-MM-DD"): midnight of that day in the local zone
parseISO(ymd) == DaysFromCivil(ymd) * MS_PER_DAY - hostOffset

\* variant: nothing is ever past
isPastNever(date, clock) == FALSE

\* isPast(date): date < Date.now()
isPast(date, clock) == date < clock

\* differenceInDays(later, earlier), later >= earlier: the full days between
differenceInDays(later, earlier) == (later - earlier) \div MS_PER_DAY

\* differenceInWeeks(later, earlier): the full weeks between
differenceInWeeks(later, earlier) == differenceInDays(later, earlier) \div 7

\* getExpiryStatus of expiryUtils.ts
getExpiryStatusBrowser(validityUpto, clock) ==
    IF validityUpto = <<>> THEN "safe"
    ELSE IF isPast(parseISO(validityUpto), clock) THEN "overdue"
    ELSE IF differenceInDays(parseISO(validityUpto), clock) <= 1 THEN "day-before"
    ELSE IF differenceInDays(parseISO(validityUpto), clock) <= 7 THEN "week"
    ELSE IF differenceInWeeks(parseISO(validityUpto), clock) <= 2 THEN "2-weeks"
    ELSE "later"

InitBadge ==
    /\ hostOffset \in HostOffsets
    /\ certifications \in {[id \in {"c1"} |-> RowWise("BIS", <<>>)]}
    /\ emailRecipients = [e \in Emails |-> TRUE]
    /\ emailLogs = <<>>
    /\ runs = [r \in RunIds |-> IdleRun]
    /\ lastRunYmd = <<>>
    /\ budget = [runs |-> 0, overlap |-> FALSE, advances |-> 0, step |-> 0,
                 edits |-> 0, faults |-> 0]
    /\ hist = NoHistory
    /\ \E day \in ClassifyFirstDay .. (ClassifyFirstDay + ClassifySpan) :
          /\ now = day * MS_PER_DAY + 720
          /\ \E delta \in (0 - LookBack) .. BadgeAhead :
                probe = [ymd |-> CivilTable[day + delta], status |-> "none",
                         badge |-> "none"]

\* the page renders the badge of the certification
ClassifyBrowser ==
    /\ probe.badge = "none"
    /\ probe' = [probe EXCEPT !.badge = getExpiryStatusBrowser(probe.ymd, now)]
    /\ UNCHANGED <<hostOffset, now, certifications, emailRecipients, emailLogs,
                   runs, lastRunYmd, budget, hist>>

NextBadge == Classify \/ ClassifyBrowser

SpecBadge == InitBadge /\ [][NextBadge]_vars

\* the urgency of a bucket, the rungs after '2-weeks' taken together
Urgency(status) ==
    CASE status = "overdue" -> 4
      [] status = "day-before" -> 3
      [] status = "week" -> 2
      [] status = "2-weeks" -> 1
      [] OTHER -> 0

\* C27: the two classifiers differ, and only one way: for the same clock and
\* validity end the badge of the browser is never less urgent than the bucket
\* of the server; a pair on which they differ is C27_Witness.
C27_BadgeAtLeastAsUrgent ==
    (probe.status # "none" /\ probe.badge # "none") =>
        Urgency(probe.badge) >= Urgency(probe.status)

\* 15 to 21 days ahead: the badge says '2-weeks' (weeksUntil <= 2) where the
\* server mails 'month' (daysUntil > 14)
C27_Witness ==
    /\ probe.badge = "2-weeks"
    /\ probe.status = "month"

\* C28: at return 'sent' is the number of delivery calls that succeeded, and
\* sent + skipped + the number of delivery calls that failed is the number of
\* units (and empty records) the run has met.
C28_CounterAccounting ==
    \A r \in RunIds :
        (runs[r].pc = "done" /\ runs[r].readCerts) =>
            /\ runs[r].sent = runs[r].calls - runs[r].bounced
            /\ runs[r].sent + runs[r].skipped + runs[r].bounced = runs[r].items

(***************************************************************************)
(* One validity end classified day after day, from LookAhead days before   *)
(* it to LookBack days after it (SpecUrgency).                             *)
(***************************************************************************)
InitUrgency ==
    /\ hostOffset \in HostOffsets
    /\ certifications \in {[id \in {"c1"} |-> RowWise("BIS", <<>>)]}
    /\ emailRecipients = [e \in Emails |-> TRUE]
    /\ emailLogs = <<>>
    /\ runs = [r \in RunIds |-> IdleRun]
    /\ lastRunYmd = <<>>
    /\ budget = [runs |-> 0, overlap |-> FALSE, advances |-> 0, step |-> 0,
                 edits |-> 0, faults |-> 0]
    /\ hist = NoHistory
    /\ \E day \in ClassifyFirstDay .. (ClassifyFirstDay + ClassifySpan) :
          /\ now = day * MS_PER_DAY + 720
          /\ probe = [ymd |-> CivilTable[day + LookAhead], status |-> "none",
                      seen |-> {}]

\* the next day's call of getExpiryStatus for the same validity end
NextDay ==
    /\ probe.status # "none"
    /\ DaysFromCivil(probe.ymd) - UtcDay(now) > 0 - LookBack
    /\ now' = now + MS_PER_DAY
    /\ probe' = [probe EXCEPT !.status = getExpiryStatus(probe.ymd, now'),
                              !.seen = @ \cup {probe.status}]
    /\ UNCHANGED <<hostOffset, certifications, emailRecipients, emailLogs,
                   runs, lastRunYmd, budget, hist>>

NextUrgency == Classify \/ NextDay

SpecUrgency == InitUrgency /\ [][NextUrgency]_vars

\* the place of a bucket in the order safe, 6-months, ..., overdue
Place(status) ==
    CASE status = "safe" -> 0
      [] status = "6-months" -> 1
      [] status = "3-months" -> 2
      [] status = "month" -> 3
      [] status = "2-weeks" -> 4
      [] status = "week" -> 5
      [] status = "day-before" -> 6
      [] status = "overdue" -> 7

\* C29: with today advancing a day at a time, the bucket of a validity end is
\* never less urgent than a bucket it had before, and the buckets it has had
\* are all the buckets from the first one to the present one.
C29_UrgencyOnlyGrows ==
    probe.status # "none" =>
        LET places == {Place(s) : s \in probe.seen \cup {probe.status}}
        IN  /\ \A p \in places : p <= Place(probe.status)
            /\ \A p \in places, q \in 0 .. 7 :
                  (p <= q /\ q <= Place(probe.status)) => q \in places

\* a validity end that was 'safe' has gone through every bucket to 'overdue'
C29_Witness ==
    /\ probe.status = "overdue"
    /\ probe.seen = {"safe", "6-months", "3-months", "month", "2-weeks", "week",
                     "day-before", "overdue"}

\* C30: once a run has returned with a working gateway and database, nothing
\* else having happened meanwhile, the dedup query answers "already sent" for
\* every certification that is not 'safe' and every recipient of the run.
C30_NobodyOwedAfterCleanRun ==
    \A r \in RunIds :
        (ScenarioDone(r) /\ runs[r].calm /\ budget.faults = MaxFaults) =>
            \A id \in DOMAIN certifications :
                StatusNow(id) # "safe" =>
                    \A e \in runs[r].activeAtLoad :
                        IF StatusNow(id) = "overdue"
                        THEN hasSentOverdueToday(id, e, KeyNow(id), now)
                        ELSE hasSentMilestone(id, e, KeyNow(id))
====
